---- MODULE Spec2Model ----
(***************************************************************************)
(* The streaming Base64 codec of src/src/sandstorm/util.c++ (derived from  *)
(* libb64): the encoder and decoder state machines, their symbol tables    *)
(* and the one-shot drivers base64Encode / base64Decode.                   *)
(*                                                                         *)
(* Characters are their ASCII codes.  `char' is the signed 8-bit type of   *)
(* the x86-64 Linux build; bytes (kj::byte) are 0..255.                    *)
(***************************************************************************)
EXTENDS Integers, Sequences, FiniteSets, TLC

VARIABLES
  plain,        \* input bytes handed to the encoder (kj::ArrayPtr<const byte>)
  breakLines,   \* the breakLines flag of the conversion
  estate,       \* base64_encodestate: step, result, stepcount
  fed,          \* number of bytes of plain passed to base64_encode_block so far
  code,         \* characters written to the output buffer so far
  total,        \* sum of the counts returned by the calls so far
  outSize,      \* output.size() of the buffer base64Encode allocated
  endOut,       \* characters written by base64_encode_blockend
  via,          \* "none", "blocks" (block by block) or "base64Encode" (one shot)
  resumed,      \* some base64_encode_block call took up a group left unfinished
  emptyCall,    \* the latest base64_encode_block call, when its slice was empty
  pc,           \* "off", "idle", "feeding", "ended", "assert"
  text,         \* input text handed to the decoder
  decoding80,   \* what the build holds one past the end of decoding[] (line 477)
  dstate,       \* base64_decodestate: step, plainchar
  plainOut,     \* bytes the decoder has completed in its output buffer
  bufSize,      \* size of the buffer base64Decode allocated
  maxWrite,     \* highest output-buffer index written, -1 if none
  maxRead,      \* highest output-buffer index read, -1 if none
  decoded,      \* the array base64Decode returned
  dfed,         \* number of characters of text passed to base64_decode_block so far
  dresumed,     \* some base64_decode_block call took up a group left unfinished
  dpc,          \* "idle", "blocks" (block by block), "decoded" (one shot)
  lookup        \* a call of base64_decode_value: its argument, result and table index

vars == <<plain, breakLines, estate, fed, code, total, outSize, endOut, via,
          resumed, emptyCall, pc,
          text, decoding80, dstate, plainOut, bufSize, maxWrite, maxRead,
          decoded, dfed, dresumed, dpc, lookup>>

encVars == <<plain, breakLines, estate, fed, code, total, outSize, endOut, via,
            resumed, emptyCall>>
decVars == <<dstate, plainOut, bufSize, maxWrite, maxRead, decoded, dfed,
            dresumed, dpc>>

--------------------------------------------------------------------------
(* Bounds of the model *)

MaxLen == 3          \* short inputs: every byte sequence over ByteVals up to this length
MaxOver == 2         \* long inputs: up to this many bytes past a full 72-character line

ByteVals == {0, 77, 97, 110, 251, 255}

--------------------------------------------------------------------------
(* C integer and char arithmetic *)

\* Conversion of an int to the signed 8-bit char (two's complement).
ToChar(x) == ((x + 128) % 256) - 128

RECURSIVE AndBits(_, _)
AndBits(a, b) ==
  IF a = 0 \/ b = 0 THEN 0
  ELSE ((a % 2) * (b % 2)) + 2 * AndBits(a \div 2, b \div 2)

RECURSIVE OrBits(_, _)
OrBits(a, b) ==
  IF a = 0 THEN b
  ELSE IF b = 0 THEN a
  ELSE (IF a % 2 = 1 \/ b % 2 = 1 THEN 1 ELSE 0) + 2 * OrBits(a \div 2, b \div 2)

\* The masks of the codec (0x0fc, 0x003, 0x0f0, 0x00f, 0x0c0, 0x03f, 0x030,
\* 0x03c) and the bitwise operations on them, tabulated once.
Masks == {252, 3, 240, 15, 192, 63, 48, 60}
AndTable == [x \in 0..255 |-> [m \in Masks |-> AndBits(x, m)]]
OrTable == [c \in 0..255 |-> [v \in 0..63 |-> OrBits(c, v)]]

\* x & m for a (sign-extended) char x and a mask m in 0..255: only the low
\* eight bits of x can survive the mask.
BitAnd(x, m) == AndTable[x % 256][m]

\* The char stored by  c |= v  for a char c and a value v in 0..63.
BitOr(c, v) == ToChar(OrTable[c % 256][v])

--------------------------------------------------------------------------
(* Encoder *)

CHARS_PER_LINE == 72

Pad == 61        \* '='
Newline == 10    \* '\n'

base64_init_encodestate == [step |-> "step_A", result |-> 0, stepcount |-> 0]

\* "ABCDEFGHIJKLMNOPQRSTUVWXYZabcdefghijklmnopqrstuvwxyz0123456789+/"
encoding ==
  << 65, 66, 67, 68, 69, 70, 71, 72, 73, 74, 75, 76, 77,
     78, 79, 80, 81, 82, 83, 84, 85, 86, 87, 88, 89, 90,
     97, 98, 99, 100, 101, 102, 103, 104, 105, 106, 107, 108, 109,
     110, 111, 112, 113, 114, 115, 116, 117, 118, 119, 120, 121, 122,
     48, 49, 50, 51, 52, 53, 54, 55, 56, 57, 43, 47 >>

base64_encode_value(value_in) ==
  IF value_in > 63 THEN Pad ELSE encoding[value_in + 1]

\* EncodeStepA without the shift of the first six bits.
EncodeStepA_NoShift(s, fragment) ==
  LET result == BitAnd(fragment, 252)
  IN  [out   |-> <<base64_encode_value(result)>>,
       state |-> [step |-> "step_B",
                  result |-> BitAnd(fragment, 3) * 16,
                  stepcount |-> s.stepcount]]

\* case step_A, after the end-of-input test: one byte consumed, one character out.
EncodeStepA(s, fragment) ==
  LET result == BitAnd(fragment, 252) \div 4
  IN  [out   |-> <<base64_encode_value(result)>>,
       state |-> [step |-> "step_B",
                  result |-> BitAnd(fragment, 3) * 16,
                  stepcount |-> s.stepcount]]

\* EncodeStepB with the carried bits of the first byte dropped (= for |=).
EncodeStepB_NoCarry(s, fragment) ==
  LET result == BitAnd(fragment, 240) \div 16
  IN  [out   |-> <<base64_encode_value(result)>>,
       state |-> [step |-> "step_C",
                  result |-> BitAnd(fragment, 15) * 4,
                  stepcount |-> s.stepcount]]

\* EncodeStepB keeping the low four bits unshifted.
EncodeStepB_NoShift(s, fragment) ==
  LET result == BitOr(s.result, BitAnd(fragment, 240) \div 16)
  IN  [out   |-> <<base64_encode_value(result)>>,
       state |-> [step |-> "step_C",
                  result |-> BitAnd(fragment, 15),
                  stepcount |-> s.stepcount]]

\* case step_B.
EncodeStepB(s, fragment) ==
  LET result == BitOr(s.result, BitAnd(fragment, 240) \div 16)
  IN  [out   |-> <<base64_encode_value(result)>>,
       state |-> [step |-> "step_C",
                  result |-> BitAnd(fragment, 15) * 4,
                  stepcount |-> s.stepcount]]

\* EncodeStepC breaking the line one group late.
EncodeStepC_Late(s, fragment, brk) ==
  LET result1 == BitOr(s.result, BitAnd(fragment, 192) \div 64)
      result2 == BitAnd(fragment, 63) \div 1
      count   == s.stepcount + 1
      wrap    == brk /\ count = (CHARS_PER_LINE \div 4) + 1
  IN  [out   |-> <<base64_encode_value(result1), base64_encode_value(result2)>>
                 \o (IF wrap THEN <<Newline>> ELSE <<>>),
       state |-> [step |-> "step_A",
                  result |-> result2,
                  stepcount |-> IF wrap THEN 0 ELSE count]]

\* EncodeStepC resetting the counter every 18 groups whatever breakLines is.
EncodeStepC_AlwaysReset(s, fragment, brk) ==
  LET result1 == BitOr(s.result, BitAnd(fragment, 192) \div 64)
      result2 == BitAnd(fragment, 63) \div 1
      count   == s.stepcount + 1
      full    == count = CHARS_PER_LINE \div 4
  IN  [out   |-> <<base64_encode_value(result1), base64_encode_value(result2)>>
                 \o (IF brk /\ full THEN <<Newline>> ELSE <<>>),
       state |-> [step |-> "step_A",
                  result |-> result2,
                  stepcount |-> IF full THEN 0 ELSE count]]

\* EncodeStepC breaking the line without resetting the counter.
EncodeStepC_NoReset(s, fragment, brk) ==
  LET result1 == BitOr(s.result, BitAnd(fragment, 192) \div 64)
      result2 == BitAnd(fragment, 63) \div 1
      count   == s.stepcount + 1
      wrap    == brk /\ count = CHARS_PER_LINE \div 4
  IN  [out   |-> <<base64_encode_value(result1), base64_encode_value(result2)>>
                 \o (IF wrap THEN <<Newline>> ELSE <<>>),
       state |-> [step |-> "step_A",
                  result |-> result2,
                  stepcount |-> count]]

\* case step_C: two characters out, the group counter and the line break.
EncodeStepC(s, fragment, brk) ==
  LET result1 == BitOr(s.result, BitAnd(fragment, 192) \div 64)
      result2 == BitAnd(fragment, 63) \div 1
      count   == s.stepcount + 1
      wrap    == brk /\ count = CHARS_PER_LINE \div 4
  IN  [out   |-> <<base64_encode_value(result1), base64_encode_value(result2)>>
                 \o (IF wrap THEN <<Newline>> ELSE <<>>),
       state |-> [step |-> "step_A",
                  result |-> result2,
                  stepcount |-> IF wrap THEN 0 ELSE count]]

\* One turn of the switch/while body on the next input byte.
EncodeByte(s, byte, brk) ==
  LET fragment == ToChar(byte)
  IN  CASE s.step = "step_A" -> EncodeStepA(s, fragment)
        [] s.step = "step_B" -> EncodeStepB(s, fragment)
        [] s.step = "step_C" -> EncodeStepC(s, fragment, brk)

\* The while loop over plaintext_in[lo..hi], left to right.  The range is
\* folded by halves, which visits the bytes in the same order.
RECURSIVE EncodeLoop(_, _, _, _, _)
EncodeLoop(plaintext_in, lo, hi, s, brk) ==
  IF lo > hi THEN [out |-> <<>>, state |-> s]
  ELSE IF lo = hi THEN EncodeByte(s, plaintext_in[lo], brk)
  ELSE LET mid == (lo + hi) \div 2
           a   == EncodeLoop(plaintext_in, lo, mid, s, brk)
           b   == EncodeLoop(plaintext_in, mid + 1, hi, a.state, brk)
       IN  [out |-> a.out \o b.out, state |-> b.state]

\* base64_encode_block starting from a zero result instead of the stored one.
base64_encode_block_FreshResult(plaintext_in, state_in, brk) ==
  EncodeLoop(plaintext_in, 1, Len(plaintext_in), [state_in EXCEPT !.result = 0], brk)

\* base64_encode_block returning without storing result in the state.
base64_encode_block_NoStore(plaintext_in, state_in, brk) ==
  LET r == EncodeLoop(plaintext_in, 1, Len(plaintext_in), state_in, brk)
  IN  [out |-> r.out, state |-> [r.state EXCEPT !.result = state_in.result]]

\* The characters written to code_out (the return value is their number) and
\* the state left in *state_in.
base64_encode_block(plaintext_in, state_in, brk) ==
  EncodeLoop(plaintext_in, 1, Len(plaintext_in), state_in, brk)

\* base64_encode_blockend padding step_C like step_B.
base64_encode_blockend_TwoPads(state_in, brk) ==
  LET flush == CASE state_in.step = "step_B" ->
                      <<base64_encode_value(state_in.result), Pad, Pad>>
                 [] state_in.step = "step_C" ->
                      <<base64_encode_value(state_in.result), Pad, Pad>>
                 [] state_in.step = "step_A" -> <<>>
      count == IF state_in.step = "step_A" THEN state_in.stepcount
               ELSE state_in.stepcount + 1
  IN  [out   |-> flush \o (IF brk /\ count > 0 THEN <<Newline>> ELSE <<>>),
       state |-> [state_in EXCEPT !.stepcount = count]]

\* base64_encode_blockend padding step_B like step_C.
base64_encode_blockend_OnePad(state_in, brk) ==
  LET flush == CASE state_in.step = "step_B" ->
                      <<base64_encode_value(state_in.result), Pad>>
                 [] state_in.step = "step_C" ->
                      <<base64_encode_value(state_in.result), Pad>>
                 [] state_in.step = "step_A" -> <<>>
      count == IF state_in.step = "step_A" THEN state_in.stepcount
               ELSE state_in.stepcount + 1
  IN  [out   |-> flush \o (IF brk /\ count > 0 THEN <<Newline>> ELSE <<>>),
       state |-> [state_in EXCEPT !.stepcount = count]]

base64_encode_blockend(state_in, brk) ==
  LET flush == CASE state_in.step = "step_B" ->
                      <<base64_encode_value(state_in.result), Pad, Pad>>
                 [] state_in.step = "step_C" ->
                      <<base64_encode_value(state_in.result), Pad>>
                 [] state_in.step = "step_A" -> <<>>
      count == IF state_in.step = "step_A" THEN state_in.stepcount
               ELSE state_in.stepcount + 1
  IN  [out   |-> flush \o (IF brk /\ count > 0 THEN <<Newline>> ELSE <<>>),
       state |-> [state_in EXCEPT !.stepcount = count]]

\* EncodedSize without the newline of a partial line.
EncodedSize_NoPartial(n, brk) ==
  LET numChars  == ((n + 2) \div 3) * 4
      lineCount == numChars \div CHARS_PER_LINE
  IN  IF brk THEN numChars + lineCount ELSE numChars

\* The buffer size base64Encode precomputes.
EncodedSize(n, brk) ==
  LET numChars  == ((n + 2) \div 3) * 4
      lineCount == (numChars \div CHARS_PER_LINE)
                   + (IF numChars % CHARS_PER_LINE > 0 THEN 1 ELSE 0)
  IN  IF brk THEN numChars + lineCount ELSE numChars

base64Encode(input, brk) ==
  LET r1 == base64_encode_block(input, base64_init_encodestate, brk)
      r2 == base64_encode_blockend(r1.state, brk)
  IN  [output |-> r1.out \o r2.out,
       endOut |-> r2.out,
       state  |-> r2.state,
       total  |-> Len(r1.out) + Len(r2.out),
       size   |-> EncodedSize(Len(input), brk)]

--------------------------------------------------------------------------
(* Decoder *)

base64_init_decodestate == [step |-> "step_a", plainchar |-> 0]

\* static const char decoding[]: indexed by (character - 43).
decoding ==
  << 62, -1, -1, -1, 63, 52, 53, 54, 55, 56, 57, 58, 59, 60, 61, -1, -1, -1, -2, -1, -1, -1,
     0, 1, 2, 3, 4, 5, 6, 7, 8, 9, 10, 11, 12, 13, 14, 15, 16, 17, 18, 19, 20, 21, 22, 23, 24, 25,
     -1, -1, -1, -1, -1, -1,
     26, 27, 28, 29, 30, 31, 32, 33, 34, 35, 36, 37, 38, 39, 40, 41, 42, 43, 44, 45, 46, 47, 48,
     49, 50, 51 >>

decoding_size == Len(decoding)

\* base64_decode_value with the table offset off by one.
base64_decode_value_Offset(value_in, d80) ==
  LET v == ToChar(value_in - 44)
  IN  IF v < 0 \/ v > decoding_size THEN -1
      ELSE IF v < Len(decoding) THEN decoding[v + 1]
      ELSE d80

\* value_in is a char.  The test admits value_in = decoding_size, one past the
\* last entry of the table; that read yields whatever the build placed there
\* (d80).
base64_decode_value(value_in, d80) ==
  LET v == ToChar(value_in - 43)
  IN  IF v < 0 \/ v > decoding_size THEN -1
      ELSE IF v < Len(decoding) THEN decoding[v + 1]
      ELSE d80

\* The index at which base64_decode_value reads decoding[] for the char
\* value_in, -1 when it returns without reading the table.
decoding_index(value_in) ==
  LET v == ToChar(value_in - 43)
  IN  IF v < 0 \/ v > decoding_size THEN -1 ELSE v

\* The run of base64_decode_block is a record
\*   step      position in the switch
\*   at        index of the write cursor plainchar in the output buffer
\*   cur       the char staged at the write cursor, *plainchar
\*   staged    whether the cell at the cursor has been written
\*   maxWrite, maxRead   highest buffer index written / read so far
\* and each step yields the chars it completed (the cells the cursor passed).
Max(a, b) == IF a >= b THEN a ELSE b

\* *plainchar = state_in->plainchar  on entry.
DecodeEntry(mem, state_in) ==
  [step     |-> state_in.step,
   at       |-> Len(mem.out),
   cur      |-> state_in.plainchar,
   staged   |-> TRUE,
   maxWrite |-> Max(mem.maxWrite, Len(mem.out)),
   maxRead  |-> mem.maxRead]

\* One valid symbol (fragment >= 0) at the current step.
DecodeSymbol(r, fragment) ==
  CASE r.step = "step_a" ->
         [out |-> <<>>,
          run |-> [r EXCEPT !.step = "step_b",
                            !.cur = ToChar(BitAnd(fragment, 63) * 4),
                            !.staged = TRUE,
                            !.maxWrite = Max(@, r.at)]]
    [] r.step = "step_b" ->
         [out |-> <<BitOr(r.cur, BitAnd(fragment, 48) \div 16)>>,
          run |-> [r EXCEPT !.step = "step_c",
                            !.at = r.at + 1,
                            !.cur = ToChar(BitAnd(fragment, 15) * 16),
                            !.staged = TRUE,
                            !.maxRead = Max(@, r.at),
                            !.maxWrite = Max(@, r.at + 1)]]
    [] r.step = "step_c" ->
         [out |-> <<BitOr(r.cur, BitAnd(fragment, 60) \div 4)>>,
          run |-> [r EXCEPT !.step = "step_d",
                            !.at = r.at + 1,
                            !.cur = ToChar(BitAnd(fragment, 3) * 64),
                            !.staged = TRUE,
                            !.maxRead = Max(@, r.at),
                            !.maxWrite = Max(@, r.at + 1)]]
    [] r.step = "step_d" ->
         [out |-> <<BitOr(r.cur, BitAnd(fragment, 63))>>,
          run |-> [r EXCEPT !.step = "step_a",
                            !.at = r.at + 1,
                            !.staged = FALSE,
                            !.maxRead = Max(@, r.at),
                            !.maxWrite = Max(@, r.at)]]

\* One input character: looked up, skipped when the lookup is negative.
DecodeChar(r, ch, d80) ==
  LET fragment == ToChar(base64_decode_value(ToChar(ch), d80))
  IN  IF fragment < 0 THEN [out |-> <<>>, run |-> r] ELSE DecodeSymbol(r, fragment)

\* The while loop over code_in[lo..hi], left to right.  The range is folded
\* by halves, which visits the characters in the same order.
RECURSIVE DecodeLoop(_, _, _, _, _)
DecodeLoop(code_in, lo, hi, r, d80) ==
  IF lo > hi THEN [out |-> <<>>, run |-> r]
  ELSE IF lo = hi THEN DecodeChar(r, code_in[lo], d80)
  ELSE LET mid == (lo + hi) \div 2
           a   == DecodeLoop(code_in, lo, mid, r, d80)
           b   == DecodeLoop(code_in, mid + 1, hi, a.run, d80)
       IN  [out |-> a.out \o b.out, run |-> b.run]

\* DecodeReturn leaving the staged byte out of the state.
DecodeReturn_NoSave(mem, l, garbage) ==
  [out      |-> mem.out \o l.out,
   state    |-> [step |-> l.run.step, plainchar |-> 0],
   maxWrite |-> l.run.maxWrite,
   maxRead  |-> Max(l.run.maxRead, l.run.at)]

\* state_in->plainchar = *plainchar  on return: the cell at the cursor is read;
\* when this call has not written it, the read yields what the memory holds
\* (garbage).
DecodeReturn(mem, l, garbage) ==
  [out      |-> mem.out \o l.out,
   state    |-> [step |-> l.run.step,
                 plainchar |-> IF l.run.staged THEN l.run.cur ELSE garbage],
   maxWrite |-> l.run.maxWrite,
   maxRead  |-> Max(l.run.maxRead, l.run.at)]

\* mem: the output buffer as the caller holds it, with the write cursor at
\* index Len(mem.out).  The return value of the C function is the growth of out.
base64_decode_block(code_in, mem, state_in, d80, garbage) ==
  DecodeReturn(mem,
               DecodeLoop(code_in, 1, Len(code_in), DecodeEntry(mem, state_in), d80),
               garbage)

\* DecodedBound sized at one byte per two characters.
DecodedBound_Half(n) == (n + 1) \div 2

\* The size of the array base64Decode allocates.
DecodedBound(n) == (n * 6 + 7) \div 8

\* reinterpret_cast of the char buffer to bytes.
ToByte(c) == c % 256

base64Decode(input, d80, garbage) ==
  LET size == DecodedBound(Len(input))
      r    == base64_decode_block(input,
                [out |-> <<>>, maxWrite |-> -1, maxRead |-> -1],
                base64_init_decodestate, d80, garbage)
      n    == Len(r.out)
      kept == IF n < size THEN n ELSE size
  IN  [output   |-> [i \in 1..kept |-> ToByte(r.out[i])],
       n        |-> n,
       size     |-> size,
       state    |-> r.state,
       out      |-> r.out,
       maxWrite |-> r.maxWrite,
       maxRead  |-> r.maxRead]

--------------------------------------------------------------------------
(* Inputs *)

ShortInputs == UNION {[1..n -> ByteVals] : n \in 0..MaxLen}

\* Input bytes that fill one output line.
LineBytes == (CHARS_PER_LINE \div 4) * 3

\* Lengths around one full line, and one input that runs into a third line.
LongLens == {LineBytes + d : d \in (0 - 1)..MaxOver} \cup {2 * LineBytes + 1}

LongInputs == {[i \in 1..n |-> (77 + 37 * i) % 256] : n \in LongLens}

Inputs == ShortInputs \cup LongInputs

\* What the build can hold one past the end of decoding[], and what a cell of
\* the output buffer that was never written can hold (chars).
D80Vals == {-1, 80}
GarbageVals == {-86, 0}

MaxText == 4         \* decoder texts: every text over DecChars up to this length

\* 'T', 'u', '/' of the alphabet; '=', '{', '!' outside it.
DecChars == {84, 117, 47, 61, 123, 33}

ShortTexts == UNION {[1..n -> DecChars] : n \in 0..MaxText}

\* "TWFu", "T!W@F#u", "TWFu\nbg==", and a text with a byte above 127 and a space.
VectorTexts ==
  { <<84, 87, 70, 117>>,
    <<84, 33, 87, 64, 70, 35, 117>>,
    <<84, 87, 70, 117, 10, 98, 103, 61, 61>>,
    <<200, 84, 32, 87, 70, 117>> }

Texts == ShortTexts \cup VectorTexts

--------------------------------------------------------------------------
(* The conversions as a state machine *)

\* No empty-slice call of base64_encode_block is the latest call.
NoEmptyCall == [made |-> FALSE, ret |-> 0, before |-> base64_init_encodestate, grew |-> 0]

\* No call of base64_decode_value has been made.
NoLookup == [done |-> FALSE, byte |-> 0, value |-> 0, index |-> -1]

DecoderIdle ==
  /\ dstate = base64_init_decodestate
  /\ plainOut = <<>>
  /\ bufSize = 0
  /\ maxWrite = -1
  /\ maxRead = -1
  /\ decoded = <<>>
  /\ dfed = 0
  /\ dresumed = FALSE
  /\ dpc = "idle"

Init ==
  /\ plain \in Inputs
  /\ breakLines \in BOOLEAN
  /\ estate = base64_init_encodestate
  /\ fed = 0
  /\ code = <<>>
  /\ total = 0
  /\ outSize = 0
  /\ endOut = <<>>
  /\ via = "none"
  /\ resumed = FALSE
  /\ emptyCall = NoEmptyCall
  /\ pc = "idle"
  /\ text = <<>>
  /\ decoding80 \in D80Vals
  /\ DecoderIdle
  /\ lookup = NoLookup

\* One call of base64_encode_block on the next k bytes of the input.
EncodeBlock(k) ==
  /\ pc \in {"idle", "feeding"}
  /\ LET r == base64_encode_block(SubSeq(plain, fed + 1, fed + k), estate, breakLines)
     IN  /\ estate' = r.state
         /\ code' = code \o r.out
         /\ total' = total + Len(r.out)
         /\ resumed' = (resumed \/ (k > 0 /\ estate.step # "step_A"))
         /\ emptyCall' = IF k = 0
                         THEN [made |-> TRUE, ret |-> Len(r.out), before |-> estate,
                               grew |-> Len(code \o r.out) - Len(code)]
                         ELSE NoEmptyCall
  /\ fed' = fed + k
  /\ via' = "blocks"
  /\ pc' = "feeding"
  /\ UNCHANGED <<plain, breakLines, outSize, endOut, text, decoding80, lookup>>
  /\ UNCHANGED decVars

\* The call of base64_encode_blockend once all input has been fed.
EncodeBlockEnd ==
  /\ pc \in {"idle", "feeding"}
  /\ fed = Len(plain)
  /\ LET r == base64_encode_blockend(estate, breakLines)
     IN  /\ estate' = r.state
         /\ code' = code \o r.out
         /\ total' = total + Len(r.out)
         /\ endOut' = r.out
  /\ via' = "blocks"
  /\ pc' = "ended"
  /\ emptyCall' = NoEmptyCall
  /\ UNCHANGED <<plain, breakLines, fed, outSize, resumed, text, decoding80, lookup>>
  /\ UNCHANGED decVars

\* base64Encode on the whole input; KJ_ASSERT(total == output.size()).
Encode ==
  /\ pc = "idle"
  /\ LET r == base64Encode(plain, breakLines)
     IN  /\ estate' = r.state
         /\ code' = r.output
         /\ total' = r.total
         /\ outSize' = r.size
         /\ endOut' = r.endOut
         /\ pc' = IF r.total = r.size THEN "ended" ELSE "assert"
  /\ fed' = Len(plain)
  /\ via' = "base64Encode"
  /\ UNCHANGED <<plain, breakLines, resumed, emptyCall, text, decoding80, lookup>>
  /\ UNCHANGED decVars

\* base64Decode on input.
DoDecode(input) ==
  /\ dpc = "idle"
  /\ \E garbage \in GarbageVals :
       LET r == base64Decode(input, decoding80, garbage)
       IN  /\ dstate' = r.state
           /\ plainOut' = r.out
           /\ bufSize' = r.size
           /\ maxWrite' = r.maxWrite
           /\ maxRead' = r.maxRead
           /\ decoded' = r.output
  /\ dpc' = "decoded"
  /\ UNCHANGED <<pc, text, decoding80, dfed, dresumed, lookup>>
  /\ UNCHANGED encVars

\* The encoded text is decoded again.
Decode ==
  /\ pc = "ended"
  /\ DoDecode(code)

Next ==
  \/ \E k \in 0..(Len(plain) - fed) : EncodeBlock(k)
  \/ EncodeBlockEnd
  \/ Encode
  \/ Decode

Spec == Init /\ [][Next]_vars

\* The decoder alone, on arbitrary text.
InitDec ==
  /\ plain = <<>>
  /\ breakLines = FALSE
  /\ estate = base64_init_encodestate
  /\ fed = 0
  /\ code = <<>>
  /\ total = 0
  /\ outSize = 0
  /\ endOut = <<>>
  /\ via = "none"
  /\ resumed = FALSE
  /\ emptyCall = NoEmptyCall
  /\ pc = "off"
  /\ text \in Texts
  /\ decoding80 \in D80Vals
  /\ DecoderIdle
  /\ lookup = NoLookup

DecodeText ==
  /\ pc = "off"
  /\ DoDecode(text)

\* One call of base64_decode_block on the next k characters of the text, on
\* a state initialised once, writing at the output position reached so far.
DecodeBlock(k) ==
  /\ pc = "off"
  /\ dpc \in {"idle", "blocks"}
  /\ \E garbage \in GarbageVals :
       LET r == base64_decode_block(SubSeq(text, dfed + 1, dfed + k),
                  [out |-> plainOut, maxWrite |-> maxWrite, maxRead |-> maxRead],
                  dstate, decoding80, garbage)
       IN  /\ dstate' = r.state
           /\ plainOut' = r.out
           /\ maxWrite' = r.maxWrite
           /\ maxRead' = r.maxRead
  /\ dresumed' = (dresumed \/ (k > 0 /\ dstate.step # "step_a"))
  /\ dfed' = dfed + k
  /\ dpc' = "blocks"
  /\ UNCHANGED <<pc, text, decoding80, bufSize, decoded, lookup>>
  /\ UNCHANGED encVars

NextDec ==
  \/ DecodeText
  \/ \E k \in 0..(Len(text) - dfed) : DecodeBlock(k)

SpecDec == InitDec /\ [][NextDec]_vars

\* base64_decode_value alone, on every byte value.
InitLookup ==
  /\ plain = <<>>
  /\ breakLines = FALSE
  /\ estate = base64_init_encodestate
  /\ fed = 0
  /\ code = <<>>
  /\ total = 0
  /\ outSize = 0
  /\ endOut = <<>>
  /\ via = "none"
  /\ resumed = FALSE
  /\ emptyCall = NoEmptyCall
  /\ pc = "off"
  /\ text = <<>>
  /\ decoding80 \in D80Vals
  /\ DecoderIdle
  /\ \E b \in 0..255 : lookup = [NoLookup EXCEPT !.byte = b]

Lookup ==
  /\ ~lookup.done
  /\ lookup' = [done  |-> TRUE,
                byte  |-> lookup.byte,
                value |-> base64_decode_value(ToChar(lookup.byte), decoding80),
                index |-> decoding_index(ToChar(lookup.byte))]
  /\ UNCHANGED <<pc, text, decoding80>>
  /\ UNCHANGED encVars
  /\ UNCHANGED decVars

NextLookup == Lookup

SpecLookup == InitLookup /\ [][NextLookup]_vars

--------------------------------------------------------------------------
(* Reference definitions the properties are stated against (RFC 4648) *)

\* The Base64 symbol of a 6-bit value.
AlphabetChar(v) ==
  IF v < 26 THEN 65 + v
  ELSE IF v < 52 THEN 97 + (v - 26)
  ELSE IF v < 62 THEN 48 + (v - 52)
  ELSE IF v = 62 THEN 43 ELSE 47

InAlphabet(c) == c \in (65..90) \cup (97..122) \cup (48..57) \cup {43, 47}

CeilDiv(a, b) == CHOOSE q \in 0..a : q * b >= a /\ (q - 1) * b < a

\* Standard Base64 of a byte sequence, character by character: the 24-bit
\* value of the group, cut into four 6-bit digits, '=' past the data.
StdBase64(b) ==
  [j \in 1..(4 * CeilDiv(Len(b), 3)) |->
     LET g      == (j - 1) \div 4
         p      == (j - 1) % 4
         at(i)  == IF i <= Len(b) THEN b[i] ELSE 0
         v      == at(3 * g + 1) * 65536 + at(3 * g + 2) * 256 + at(3 * g + 3)
         digit  == (v \div <<262144, 4096, 64, 1>>[p + 1]) % 64
         have   == IF Len(b) - 3 * g >= 3 THEN 3 ELSE Len(b) - 3 * g
     IN  IF p <= have THEN AlphabetChar(digit) ELSE Pad]

\* The length of the encoded text as the specification gives it.
ExpectedLen(n, brk) ==
  LET chars == CeilDiv(n, 3) * 4
  IN  IF brk THEN chars + CeilDiv(chars, CHARS_PER_LINE) ELSE chars

\* Newline-terminated lines, all of CHARS_PER_LINE characters but the last,
\* which has between 1 and CHARS_PER_LINE.
WellWrapped(c) ==
  LET n == Len(c)
      w == CHARS_PER_LINE + 1
  IN  /\ n >= 2
      /\ c[n] = Newline
      /\ (n - 1) % w # 0
      /\ \A i \in 1..(n - 1) : (c[i] = Newline) <=> (i % w = 0)

\* What base64_encode_blockend wrote, without its final newline.
EndBody ==
  IF endOut # <<>> /\ endOut[Len(endOut)] = Newline
  THEN SubSeq(endOut, 1, Len(endOut) - 1)
  ELSE endOut

\* The text without the characters outside the alphabet.
Strip(t) == SelectSeq(t, InAlphabet)

--------------------------------------------------------------------------
(* Properties *)

\* C1: decoding what base64Encode produced, with either line-break setting,
\* returns exactly the input bytes (the empty input included).
C1_RoundTrip ==
  (via = "base64Encode" /\ dpc = "decoded") => decoded = plain

C1_Witness ==
  /\ via = "base64Encode" /\ dpc = "decoded"
  /\ breakLines
  /\ Len(plain) > LineBytes
  /\ decoded = plain

\* C2: feeding the input slice by slice to base64_encode_block on one fresh
\* state and then calling base64_encode_blockend once gives the same text as
\* base64Encode on the whole input.
C2_ChunkedEqualsOneShot ==
  (via = "blocks" /\ pc = "ended") => code = base64Encode(plain, breakLines).output

C2_Witness ==
  /\ via = "blocks" /\ pc = "ended"
  /\ resumed
  /\ breakLines
  /\ Len(plain) > LineBytes
  /\ code = base64Encode(plain, breakLines).output

\* C3: the number of characters written is ceil(n/3)*4, plus
\* ceil(ceil(n/3)*4 / 72) newlines when wrapping; it equals the size
\* base64Encode allocated, so its assertion never fails; the empty input
\* gives the empty text.
C3_Length ==
  /\ pc # "assert"
  /\ pc = "ended" =>
       /\ total = ExpectedLen(Len(plain), breakLines)
       /\ Len(code) = total
       /\ via = "base64Encode" => outSize = total
       /\ plain = <<>> => code = <<>>

C3_Witness ==
  /\ via = "base64Encode" /\ pc = "ended"
  /\ breakLines
  /\ Len(plain) = LineBytes + 1
  /\ total = CHARS_PER_LINE + 6
  /\ outSize = total

\* C4: without line breaks base64Encode gives the standard Base64 text of the
\* input; 'Man' -> 'TWFu', 'Ma' -> 'TWE=', 'M' -> 'TQ=='.
C4_Standard ==
  (via = "base64Encode" /\ pc = "ended" /\ ~breakLines) =>
     /\ code = StdBase64(plain)
     /\ plain = <<77, 97, 110>> => code = <<84, 87, 70, 117>>
     /\ plain = <<77, 97>> => code = <<84, 87, 69, 61>>
     /\ plain = <<77>> => code = <<84, 81, 61, 61>>

C4_Witness ==
  /\ via = "base64Encode" /\ pc = "ended" /\ ~breakLines
  /\ plain = <<77, 97>>
  /\ code = <<84, 87, 69, 61>>

\* C5: with wrapping the text of a non-empty input, however it was sliced, is
\* a sequence of newline-terminated lines, each of 72 characters but the last,
\* which has 1 to 72; without wrapping the text holds no newline.
C5_LineStructure ==
  pc = "ended" =>
     IF breakLines
     THEN plain # <<>> => WellWrapped(code)
     ELSE \A i \in 1..Len(code) : code[i] # Newline

C5_Witness ==
  /\ pc = "ended" /\ via = "blocks" /\ resumed
  /\ breakLines
  /\ Len(plain) = LineBytes
  /\ Len(code) = CHARS_PER_LINE + 1
  /\ code[Len(code)] = Newline

\* C6: characters outside the alphabet inserted into a text do not change
\* what base64Decode returns.
C6_NoiseIgnored ==
  (pc = "off" /\ dpc = "decoded") =>
     decoded = base64Decode(Strip(text), decoding80, 0).output

\* C7: the decoder produces at most ceil(n*6/8) bytes for a text of n
\* characters, which is the size allocated, and base64Decode returns exactly
\* the bytes produced.
C7_Bound ==
  (pc = "off" /\ dpc = "decoded") =>
     /\ bufSize = CeilDiv(Len(text) * 6, 8)
     /\ Len(plainOut) <= bufSize
     /\ Len(decoded) = Len(plainOut)
     /\ \A i \in 1..Len(decoded) : decoded[i] = plainOut[i] % 256

C7_Witness ==
  /\ pc = "off" /\ dpc = "decoded"
  /\ Len(text) = 4
  /\ Len(plainOut) = 3
  /\ bufSize = 3
  /\ Len(decoded) = 3

\* C8: every read and write base64_decode_block performs on the output buffer
\* of base64Decode is at an index below the allocated size.
C8_InBounds ==
  dpc = "decoded" => (maxWrite < bufSize /\ maxRead < bufSize)

\* C9 as stated: called with step_C, base64_encode_blockend emits two data
\* characters followed by one '='.
C9_TwoDataChars ==
  (pc = "ended" /\ estate.step = "step_C") =>
     /\ Len(EndBody) = 3
     /\ InAlphabet(EndBody[1])
     /\ InAlphabet(EndBody[2])
     /\ EndBody[3] = Pad

\* C9 as amended: called with step_C, base64_encode_blockend emits one data
\* character, the symbol of the pending bits, followed by one '='.
C9_OneDataChar ==
  (pc = "ended" /\ estate.step = "step_C") =>
     EndBody = <<AlphabetChar(estate.result), Pad>>

C9_Witness ==
  /\ pc = "ended" /\ estate.step = "step_C"
  /\ breakLines
  /\ Len(endOut) = 3
  /\ plain = <<77, 97>>

\* C10: called with step_B, base64_encode_blockend emits the symbol of the
\* pending bits followed by '=='; called with step_A it emits no data or
\* padding character.
C10_OneOrZeroLeft ==
  pc = "ended" =>
     /\ estate.step = "step_B" => EndBody = <<AlphabetChar(estate.result), Pad, Pad>>
     /\ estate.step = "step_A" => EndBody = <<>>

C10_Witness ==
  /\ pc = "ended" /\ estate.step = "step_B"
  /\ plain = <<77>>
  /\ endOut = <<81, 61, 61>>

\* One call of base64_decode_block on a whole text, from a fresh state.
OneCall(t) ==
  base64_decode_block(t, [out |-> <<>>, maxWrite |-> -1, maxRead |-> -1],
                      base64_init_decodestate, decoding80, 0)

\* C11: feeding a text slice by slice to base64_decode_block on one fresh
\* state, each call writing where the last one stopped, produces the bytes
\* (and reaches the step) of one call on the text fed so far.
C11_ChunkedDecode ==
  dpc = "blocks" =>
     /\ plainOut = OneCall(SubSeq(text, 1, dfed)).out
     /\ dstate.step = OneCall(SubSeq(text, 1, dfed)).state.step

C11_Witness ==
  /\ dpc = "blocks" /\ dfed = Len(text)
  /\ dresumed
  /\ text = <<84, 87, 70, 117, 10, 98, 103, 61, 61>>
  /\ plainOut = <<77, 97, 110, 110>>

\* The 6-bit value of an alphabet character.
DigitOf(c) == CHOOSE v \in 0..63 : AlphabetChar(v) = c

\* C12: base64_decode_value returns the 6-bit index of an alphabet byte and a
\* negative marker for every other byte, and reads its table only at indices
\* inside the table.
C12_Lookup ==
  lookup.done =>
     /\ InAlphabet(lookup.byte) => lookup.value = DigitOf(lookup.byte)
     /\ ~InAlphabet(lookup.byte) => lookup.value < 0
     /\ lookup.index < Len(decoding)

\* C13 as stated: with line wrapping disabled the group counter is 0 after
\* any sequence of base64_encode_block calls.
C13_ZeroWhenUnwrapped ==
  (pc = "feeding" /\ ~breakLines) => estate.stepcount = 0

\* C13 as amended: with line wrapping disabled the group counter is the
\* number of complete groups encoded so far; it is never reset.
C13_CountsGroups ==
  (pc = "feeding" /\ ~breakLines) => estate.stepcount = fed \div 3

C13_Witness ==
  /\ pc = "feeding" /\ ~breakLines
  /\ fed > LineBytes
  /\ estate.stepcount > CHARS_PER_LINE \div 4

\* What result holds between calls at step_B and step_C: the bits of the last
\* byte that no character has carried yet, zero-padded to six bits.
CarryOfPartialGroup ==
  /\ estate.step = "step_B" => (fed % 3 = 1 /\ estate.result = (plain[fed] % 4) * 16)
  /\ estate.step = "step_C" => (fed % 3 = 2 /\ estate.result = (plain[fed] % 16) * 4)

\* C14 as stated: between calls result holds only bits not yet emitted: 0 at
\* step_A, the low 2 bits of the last byte at step_B, its low 4 bits at step_C.
C14_OnlyPendingBits ==
  pc = "feeding" =>
     /\ estate.step = "step_A" => estate.result = 0
     /\ CarryOfPartialGroup

\* C14 as amended: at step_A result is 0 only before the first byte; after a
\* completed group it keeps the low 6 bits of the group's last byte, which the
\* fourth character has already carried.
C14_Carry ==
  pc = "feeding" =>
     /\ estate.step = "step_A" =>
          /\ fed % 3 = 0
          /\ estate.result = IF fed = 0 THEN 0 ELSE plain[fed] % 64
     /\ CarryOfPartialGroup

C14_Witness ==
  /\ pc = "feeding" /\ resumed
  /\ estate.step = "step_A"
  /\ fed = 3
  /\ plain[3] = 110
  /\ estate.result = 46

\* The text without its newlines.
NoNewlines(c) == SelectSeq(c, LAMBDA ch : ch # Newline)

\* C15: base64_encode_block writes alphabet symbols only (and newlines when
\* wrapping), never '='; in the final text '=' stands only in the last two
\* non-newline positions.
C15_NoPadMidStream ==
  /\ pc = "feeding" =>
       \A i \in 1..Len(code) :
          InAlphabet(code[i]) \/ (breakLines /\ code[i] = Newline)
  /\ pc = "ended" =>
       LET c == NoNewlines(code)
       IN  \A i \in 1..Len(c) :
              InAlphabet(c[i]) \/ (c[i] = Pad /\ i >= Len(c) - 1)

C15_Witness ==
  /\ pc = "ended" /\ via = "blocks" /\ resumed
  /\ breakLines
  /\ Len(plain) = LineBytes + 1
  /\ code[Len(code) - 1] = Pad
  /\ code[Len(code) - 2] = Pad

\* C16: a call of base64_encode_block with an empty slice returns 0, writes
\* nothing and leaves step, result and stepcount as they were.
C16_EmptyNoOp ==
  emptyCall.made =>
     /\ emptyCall.ret = 0
     /\ emptyCall.grew = 0
     /\ estate = emptyCall.before

C16_Witness ==
  /\ emptyCall.made
  /\ breakLines
  /\ estate.step = "step_C"
  /\ estate.result # 0
  /\ estate.stepcount > 0

\* C17: a text with k alphabet symbols decodes to exactly floor(3k/4) bytes.
C17_FloorThreeQuarters ==
  (pc = "off" /\ dpc = "decoded") =>
     Len(decoded) = (3 * Len(Strip(text))) \div 4

\* The number of complete 4-character groups after the last newline of c.
GroupsSinceNewline(c) ==
  LET breaks == {i \in 1..Len(c) : c[i] = Newline}
      last   == IF breaks = {} THEN 0
                ELSE CHOOSE i \in breaks : \A j \in breaks : j <= i
  IN  (Len(c) - last) \div 4

\* C18: with line wrapping enabled the group counter is between 0 and 17
\* between calls and equals the number of complete groups written since the
\* last newline.
C18_CounterRange ==
  (pc = "feeding" /\ breakLines) =>
     /\ estate.stepcount >= 0
     /\ estate.stepcount <= (CHARS_PER_LINE \div 4) - 1
     /\ estate.stepcount = GroupsSinceNewline(code)

C18_Witness ==
  /\ pc = "feeding" /\ breakLines
  /\ fed = LineBytes
  /\ estate.stepcount = 0
  /\ code[Len(code)] = Newline

====
